---- MODULE Spec2Model ----
(***************************************************************************)
(* A model of src/main.py: the busy-book generator.                        *)
(*                                                                         *)
(*   Spec       one run of generate_busybook(theme, num_pages, folder):    *)
(*              the canvas, the files, the log and the service calls.      *)
(*   SpecImage  generate_image applied to every bounded service response.  *)
(*   SpecText   generate_text applied to every bounded service response.   *)
(*                                                                         *)
(* An optional value (Python's None or a value) is a sequence of length    *)
(* at most one; a string is a sequence of one-character strings.           *)
(***************************************************************************)
EXTENDS Integers, Sequences, FiniteSets, TLC

VARIABLES
    pc,           \* position in generate_busybook
    theme,        \* argument theme
    num_pages,    \* argument num_pages
    page,         \* loop variable of line 204
    image,        \* local image (line 209)
    text,         \* local text (line 210)
    pdf,          \* pages sealed by showPage, in order
    canvas_page,  \* what has been drawn on the page not yet sealed
    saved,        \* number of pdf_canvas.save() calls
    dirs,         \* directories created
    files,        \* image files written
    log,          \* log records emitted
    events,       \* history of service calls, writes, seals and the save
    unit_pc,      \* position of the single-function runs
    img_response, \* SpecImage: the response of bedrock.invoke_model
    img_result,   \* SpecImage: what generate_image returned
    txt_response, \* SpecText: the response of bedrock.invoke_model
    txt_result    \* SpecText: what generate_text returned

run_vars == <<pc, theme, num_pages, page, image, text, pdf, canvas_page,
              saved, dirs, files, log, events>>
unit_vars == <<unit_pc, img_response, img_result, txt_response, txt_result>>
vars == <<pc, theme, num_pages, page, image, text, pdf, canvas_page,
          saved, dirs, files, log, events,
          unit_pc, img_response, img_result, txt_response, txt_result>>

----------------------------------------------------------------------------
(* Bounds of the model *)

MaxPages == 3
MaxArtifacts == 2
MaxImage == 2
MaxPieces == 3

----------------------------------------------------------------------------
(* Optional values and strings *)

None == <<>>
Some(x) == <<x>>
IsSome(o) == Len(o) = 1
Val(o) == o[1]

RECURSIVE Flatten(_)
Flatten(ss) == IF ss = <<>> THEN <<>> ELSE Head(ss) \o Flatten(Tail(ss))

RECURSIVE SeqsUpTo(_, _)
SeqsUpTo(S, n) ==
    IF n = 0 THEN {<<>>}
    ELSE LET shorter == SeqsUpTo(S, n - 1)
         IN  shorter \cup {Append(s, x) : s \in {t \in shorter : Len(t) = n - 1}, x \in S}

----------------------------------------------------------------------------
(* Python string operations used by generate_text *)

Whitespace == {" ", "\t", "\n"}

RECURSIVE LStrip(_)
LStrip(s) == IF s # <<>> /\ Head(s) \in Whitespace THEN LStrip(Tail(s)) ELSE s

RECURSIVE RStrip(_)
RStrip(s) ==
    IF s # <<>> /\ s[Len(s)] \in Whitespace
    THEN RStrip(SubSeq(s, 1, Len(s) - 1))
    ELSE s

\* str.strip()
Strip(s) == RStrip(LStrip(s))

\* str.find(c) scanning from 0-based position i: the index found, or -1
RECURSIVE FindFrom(_, _, _)
FindFrom(s, c, i) ==
    IF i >= Len(s) THEN -1
    ELSE IF s[i + 1] = c THEN i
    ELSE FindFrom(s, c, i + 1)

\* a variant that returns the last occurrence, as str.rfind would
RECURSIVE FindLastFrom(_, _, _)
FindLastFrom(s, c, i) ==
    IF i < 0 THEN -1
    ELSE IF s[i + 1] = c THEN i
    ELSE FindLastFrom(s, c, i - 1)

Find_Last(s, c) == FindLastFrom(s, c, Len(s) - 1)

Find(s, c) == FindFrom(s, c, 0)

\* s[i:] for a 0-based i >= 0
Slice(s, i) == SubSeq(s, i + 1, Len(s))

UpperCase ==
    <<"A", "B", "C", "D", "E", "F", "G", "H", "I", "J", "K", "L", "M",
      "N", "O", "P", "Q", "R", "S", "T", "U", "V", "W", "X", "Y", "Z">>
LowerCase ==
    <<"a", "b", "c", "d", "e", "f", "g", "h", "i", "j", "k", "l", "m",
      "n", "o", "p", "q", "r", "s", "t", "u", "v", "w", "x", "y", "z">>

\* the case folding of re.IGNORECASE
Lower(c) ==
    IF \E i \in 1..26 : UpperCase[i] = c
    THEN LowerCase[CHOOSE i \in 1..26 : UpperCase[i] = c]
    ELSE c

\* the alternatives of the pattern of line 112, in the order the regex tries them
IntroPhrases ==
    << <<"H", "e", "r", "e", "'", "s", " ", "a">>,
       <<"H", "e", "r", "e", " ", "i", "s", " ", "a">>,
       <<"S", "u", "r", "e", ",">>,
       <<"C", "e", "r", "t", "a", "i", "n", "l", "y", ",">> >>

\* the literal lit matches at the start of s, ignoring case
MatchesAt(s, lit) ==
    /\ Len(s) >= Len(lit)
    /\ \A i \in 1..Len(lit) : Lower(s[i]) = Lower(lit[i])

\* re.sub(r'^(Here's a|Here is a|Sure,|Certainly,)\s*', '', s, flags=re.IGNORECASE):
\* the pattern is anchored, so at most the match at position 0 is replaced
SubIntro(s) ==
    IF \E k \in 1..Len(IntroPhrases) : MatchesAt(s, IntroPhrases[k])
    THEN LET k == CHOOSE k \in 1..Len(IntroPhrases) :
                      /\ MatchesAt(s, IntroPhrases[k])
                      /\ \A j \in 1..(k - 1) : ~MatchesAt(s, IntroPhrases[j])
         IN  LStrip(Slice(s, Len(IntroPhrases[k])))
    ELSE s

\* The post-processing of lines 104-114 applied to the service's text
CleanText(raw) ==
    LET stripped == Strip(raw)
        colon_index == Find(stripped, ":")
    IN  IF colon_index # -1
        THEN Strip(Slice(stripped, colon_index + 1))
        ELSE SubIntro(stripped)

\* A response of the text service: the call raises, or the body has a content
\* list whose entries have a "text" key (Some) or lack it (None).
\* generate_text returns None for every exception (lines 115-117).
GenerateText(response) ==
    IF response.raises THEN None
    ELSE IF Len(response.content) = 0 THEN None
    ELSE IF ~IsSome(response.content[1]) THEN None
    ELSE Some(CleanText(Val(response.content[1])))

----------------------------------------------------------------------------
(* generate_image *)

\* A response of the image service: the call raises, or the body has or lacks
\* an "artifacts" list; an artifact has or lacks "base64", whose payload
\* decodes to an image or does not.
Artifacts ==
    [has_base64 : BOOLEAN, decodable : BOOLEAN, image : 1..MaxImage]

ImageResponses ==
    [raises : BOOLEAN, has_artifacts : BOOLEAN,
     artifacts : SeqsUpTo(Artifacts, MaxArtifacts)]

\* the try block of lines 60-78 raises
ImageRaises(response) ==
    \/ response.raises
    \/ /\ response.has_artifacts
       /\ Len(response.artifacts) > 0
       /\ \/ ~response.artifacts[1].has_base64
          \/ ~response.artifacts[1].decodable

\* a variant that decodes the last artifact instead of the first
GenerateImage_LastArtifact(response) ==
    IF ImageRaises(response) THEN None
    ELSE IF response.has_artifacts /\ Len(response.artifacts) > 0
    THEN Some(response.artifacts[Len(response.artifacts)].image)
    ELSE None

GenerateImage(response) ==
    IF ImageRaises(response) THEN None
    ELSE IF response.has_artifacts /\ Len(response.artifacts) > 0
    THEN Some(response.artifacts[1].image)
    ELSE None

\* what generate_image logs (lines 77 and 80)
GenerateImageLog(response) ==
    IF ImageRaises(response)
    THEN <<[level |-> "error", msg |-> "Error generating image", arg |-> 0]>>
    ELSE IF response.has_artifacts /\ Len(response.artifacts) > 0
    THEN <<>>
    ELSE <<[level |-> "warning", msg |-> "No image was generated", arg |-> 0]>>

----------------------------------------------------------------------------
(* The inputs of the model *)

Themes == {"Animals", "Jungle Adventure"}

\* output_folder of line 227
OutputFolder == "BusyBooks"

\* fragments the generated texts are built from
Pieces ==
    { <<" ">>, <<"\n">>, <<":">>, <<"x">>,
      <<"S", "u", "r", "e", ",">>,
      <<"s", "U", "R", "E", ",">>,
      <<"H", "e", "r", "e", "'", "s", " ", "a">>,
      <<"H", "E", "R", "E", " ", "I", "S", " ", "A">>,
      <<"c", "e", "r", "t", "a", "i", "n", "l", "y", ",">>,
      <<"H", "e", "r", "e">> }

RawTexts == {Flatten(ps) : ps \in SeqsUpTo(Pieces, MaxPieces)}

\* the texts the service returns in a run of generate_busybook
SampleTexts ==
    { <<"a", ":", " ", "b">>,
      <<"S", "u", "r", "e", ",", " ", "c">>,
      <<":">> }

TextResponses ==
    {[raises |-> TRUE, content |-> <<>>]}
    \cup {[raises |-> FALSE, content |-> c] :
             c \in {<<>>, <<None>>}
                   \cup {<<Some(t)>> : t \in RawTexts}
                   \cup {<<Some(t), Some(u)>> : t \in SampleTexts, u \in SampleTexts}}

\* the image responses of a run of generate_busybook: at most one artifact
RunImageResponses == {r \in ImageResponses : Len(r.artifacts) <= 1}

RunTextResponses ==
    {r \in TextResponses :
        r.content \in {<<>>} \cup {<<Some(t)>> : t \in SampleTexts}}

----------------------------------------------------------------------------
(* The canvas, the files and the history *)

BlankPage ==
    [kind |-> "blank", image |-> None, wash |-> FALSE, box |-> FALSE,
     fact |-> None, number |-> 0]

\* os.path.join(output_folder, theme)
ThemeFolder(t) == <<OutputFolder, t>>

\* <output_folder>/<theme>/<theme>_cover.png
CoverFile(t) == <<OutputFolder, t, "cover", 0>>

\* <output_folder>/<theme>/<theme>_page_<p>.png
PageFile(t, p) == <<OutputFolder, t, "page", p>>

Event(e, i, o) == [ev |-> e, idx |-> i, ok |-> o]

SkipWarning(p) ==
    [level |-> "warning", msg |-> "Skipping page", arg |-> p]

CreatedInfo ==
    [level |-> "info", msg |-> "Busybook created", arg |-> 0]

\* a variant that applies the wash inside the "if cover_image:" block
CoverPage_WashOnlyWithImage(cover_image) ==
    [kind |-> "cover", image |-> cover_image, wash |-> IsSome(cover_image),
     box |-> FALSE, fact |-> None, number |-> 0]

\* the draw calls of create_cover_page before showPage (lines 131-141)
CoverPage(cover_image) ==
    [kind |-> "cover", image |-> cover_image, wash |-> TRUE,
     box |-> FALSE, fact |-> None, number |-> 0]

\* the draw calls of create_busybook_page before showPage (lines 147-185)
ContentPage(img, fact, page_number) ==
    [kind |-> "page", image |-> img, wash |-> FALSE,
     box |-> TRUE, fact |-> fact, number |-> page_number]

\* a variant that never takes the else branch
ImagePresent_Always(img) == TRUE

\* "if image:" and "if cover_image:" (lines 131 and 212)
ImagePresent(img) == IsSome(img)

\* a variant that iterates range(1, num_pages)
LoopNext_OffByOne(p) ==
    IF p + 1 < num_pages
    THEN page' = p + 1 /\ pc' = "image"
    ELSE page' = p /\ pc' = "save"

\* the for statement of line 204: the next index, or the statement after the loop
LoopNext(p) ==
    IF p < num_pages
    THEN page' = p + 1 /\ pc' = "image"
    ELSE page' = p /\ pc' = "save"

----------------------------------------------------------------------------
(* generate_busybook *)

Init ==
    /\ pc = "start"
    /\ theme \in Themes
    /\ num_pages \in 0..MaxPages
    /\ page = 0
    /\ image = None
    /\ text = None
    /\ pdf = <<>>
    /\ canvas_page = BlankPage
    /\ saved = 0
    /\ dirs = {}
    /\ files = {}
    /\ log = <<>>
    /\ events = <<>>
    /\ unit_pc = "off"
    /\ img_response = [raises |-> TRUE, has_artifacts |-> FALSE, artifacts |-> <<>>]
    /\ img_result = None
    /\ txt_response = [raises |-> TRUE, content |-> <<>>]
    /\ txt_result = None

\* lines 192-199: open the canvas and create the theme folder
CreateCanvas ==
    /\ pc = "start"
    /\ dirs' = dirs \cup {ThemeFolder(theme)}
    /\ pc' = "cover"
    /\ UNCHANGED <<theme, num_pages, page, image, text, pdf, canvas_page,
                   saved, files, log, events>>
    /\ UNCHANGED unit_vars

\* create_cover_page, called at line 202, then the loop head of line 204
CreateCoverPage ==
    /\ pc = "cover"
    /\ \E response \in RunImageResponses :
          LET cover_image == GenerateImage(response)
              drawn == CoverPage(cover_image)
          IN  /\ dirs' = dirs \cup {ThemeFolder(theme)}
              /\ files' = IF ImagePresent(cover_image)
                          THEN files \cup {CoverFile(theme)}
                          ELSE files
              /\ pdf' = Append(pdf, drawn)
              /\ canvas_page' = BlankPage
              /\ log' = log \o GenerateImageLog(response)
              /\ events' = events
                     \o <<Event("image_call", 0, IsSome(cover_image))>>
                     \o (IF ImagePresent(cover_image)
                         THEN <<Event("write_png", 0, TRUE), Event("draw_image", 0, TRUE)>>
                         ELSE <<>>)
                     \o <<Event("seal", 0, TRUE)>>
    /\ LoopNext(0)
    /\ UNCHANGED <<theme, num_pages, image, text, saved>>
    /\ UNCHANGED unit_vars

\* line 209
PageImageCall ==
    /\ pc = "image"
    /\ \E response \in RunImageResponses :
          /\ image' = GenerateImage(response)
          /\ log' = log \o GenerateImageLog(response)
          /\ events' = Append(events, Event("image_call", page, IsSome(GenerateImage(response))))
    /\ pc' = "text"
    /\ UNCHANGED <<theme, num_pages, page, text, pdf, canvas_page, saved, dirs, files>>
    /\ UNCHANGED unit_vars

\* line 210
PageTextCall ==
    /\ pc = "text"
    /\ \E response \in RunTextResponses :
          /\ text' = GenerateText(response)
          /\ events' = Append(events, Event("text_call", page, IsSome(GenerateText(response))))
    /\ pc' = "render"
    /\ UNCHANGED <<theme, num_pages, page, image, pdf, canvas_page, saved, dirs, files, log>>
    /\ UNCHANGED unit_vars

\* Paragraph(text, text_style) of line 164: reportlab splits the text into
\* lines, which raises AttributeError when text is None
ParagraphRaises(t) == ~IsSome(t)

\* lines 212-219 with create_busybook_page, then the loop head of line 204
RenderPage ==
    /\ pc = "render"
    /\ IF ImagePresent(image)
       THEN /\ files' = files \cup {PageFile(theme, page)}
            /\ log' = log
            /\ IF ParagraphRaises(text)
               THEN \* the image is drawn (line 155), then line 164 raises:
                    \* nothing catches it and generate_busybook is left
                    /\ canvas_page' = [BlankPage EXCEPT !.kind = "page", !.image = image]
                    /\ pdf' = pdf
                    /\ events' = events
                          \o <<Event("write_png", page, TRUE), Event("draw_image", page, TRUE)>>
                    /\ pc' = "aborted"
                    /\ page' = page
               ELSE /\ pdf' = Append(pdf, ContentPage(image, text, page))
                    /\ canvas_page' = BlankPage
                    /\ events' = events
                          \o <<Event("write_png", page, TRUE), Event("draw_image", page, TRUE),
                               Event("seal", page, TRUE)>>
                    /\ LoopNext(page)
       ELSE /\ log' = Append(log, SkipWarning(page))
            /\ events' = Append(events, Event("skip", page, TRUE))
            /\ LoopNext(page)
            /\ UNCHANGED <<files, pdf, canvas_page>>
    /\ UNCHANGED <<theme, num_pages, image, text, saved, dirs>>
    /\ UNCHANGED unit_vars

\* lines 221-222
SaveDocument ==
    /\ pc = "save"
    /\ saved' = saved + 1
    /\ log' = Append(log, CreatedInfo)
    /\ events' = Append(events, Event("finalize", page, TRUE))
    /\ pc' = "done"
    /\ UNCHANGED <<theme, num_pages, page, image, text, pdf, canvas_page, dirs, files>>
    /\ UNCHANGED unit_vars

Next ==
    \/ CreateCanvas
    \/ CreateCoverPage
    \/ PageImageCall
    \/ PageTextCall
    \/ RenderPage
    \/ SaveDocument

Spec == Init /\ [][Next]_vars

----------------------------------------------------------------------------
(* generate_image and generate_text on their own *)

InitImage ==
    /\ pc = "off"
    /\ theme = "Animals"
    /\ num_pages = 0
    /\ page = 0
    /\ image = None
    /\ text = None
    /\ pdf = <<>>
    /\ canvas_page = BlankPage
    /\ saved = 0
    /\ dirs = {}
    /\ files = {}
    /\ log = <<>>
    /\ events = <<>>
    /\ unit_pc = "call"
    /\ img_response \in ImageResponses
    /\ img_result = None
    /\ txt_response = [raises |-> TRUE, content |-> <<>>]
    /\ txt_result = None

\* generate_image, lines 38-81
CallGenerateImage ==
    /\ unit_pc = "call"
    /\ img_result' = GenerateImage(img_response)
    /\ log' = log \o GenerateImageLog(img_response)
    /\ unit_pc' = "returned"
    /\ UNCHANGED <<pc, theme, num_pages, page, image, text, pdf, canvas_page,
                   saved, dirs, files, events>>
    /\ UNCHANGED <<img_response, txt_response, txt_result>>

SpecImage == InitImage /\ [][CallGenerateImage]_vars

InitText ==
    /\ pc = "off"
    /\ theme = "Animals"
    /\ num_pages = 0
    /\ page = 0
    /\ image = None
    /\ text = None
    /\ pdf = <<>>
    /\ canvas_page = BlankPage
    /\ saved = 0
    /\ dirs = {}
    /\ files = {}
    /\ log = <<>>
    /\ events = <<>>
    /\ unit_pc = "call"
    /\ img_response = [raises |-> TRUE, has_artifacts |-> FALSE, artifacts |-> <<>>]
    /\ img_result = None
    /\ txt_response \in TextResponses
    /\ txt_result = None

\* generate_text, lines 83-117
CallGenerateText ==
    /\ unit_pc = "call"
    /\ txt_result' = GenerateText(txt_response)
    /\ unit_pc' = "returned"
    /\ UNCHANGED run_vars
    /\ UNCHANGED <<img_response, img_result, txt_response>>

SpecText == InitText /\ [][CallGenerateText]_vars

----------------------------------------------------------------------------
(* Vocabulary of the properties *)

\* the run of generate_busybook has ended: it returned, or an exception left it
Terminated == pc \in {"done", "aborted"}

\* the service call e for index p (0 is the cover) returned a result / none
CallOk(e, p) == \E i \in 1..Len(events) : events[i] = Event(e, p, TRUE)
CallFailed(e, p) == \E i \in 1..Len(events) : events[i] = Event(e, p, FALSE)

\* how often event e happened for index p
Count(e, p) == Cardinality({i \in 1..Len(events) : events[i].ev = e /\ events[i].idx = p})
CountAll(e) == Cardinality({i \in 1..Len(events) : events[i].ev = e})

\* the page numbers printed in the footers of the sealed pages
PrintedNumbers == {pdf[i].number : i \in {j \in 1..Len(pdf) : pdf[j].kind = "page"}}

\* the number of pages of the PDF file written by save(); without save() no file is written
FinalPdfPages == IF saved > 0 THEN Len(pdf) ELSE 0

\* the loop has gone past index p
Passed(p) == page > p \/ pc \in {"save", "done"}

\* no page image call and no text call of the run returned none
AllPagesSucceed ==
    \A p \in 1..num_pages : ~CallFailed("image_call", p) /\ ~CallFailed("text_call", p)

----------------------------------------------------------------------------
(* Properties of one run of generate_busybook, checked under Spec *)

\* C1: whatever the outcomes of the cover image call, the page image calls and
\* the text calls, when the run has ended the PDF it wrote has at least one
\* page (the cover) and at most num_pages + 1 pages.
C1_PageCountBounds ==
    Terminated => (FinalPdfPages >= 1 /\ FinalPdfPages <= num_pages + 1)

\* C2: for every loop index p whose image call returned none, no page is
\* sealed for p and <theme>_page_<p>.png is not written, whatever the text
\* call for p returned.
C2_FailedImageSkipsPage ==
    \A p \in 1..num_pages :
        CallFailed("image_call", p) =>
            /\ p \notin PrintedNumbers
            /\ Count("seal", p) = 0
            /\ Count("draw_image", p) = 0
            /\ Count("write_png", p) = 0
            /\ PageFile(theme, p) \notin files

\* a finished run in which one failed image call met a successful text call,
\* another met a failed text call, and a third index was rendered
C2_Witness ==
    /\ pc = "done"
    /\ \E p \in 1..num_pages, q \in 1..num_pages :
          /\ CallFailed("image_call", p) /\ CallOk("text_call", p)
          /\ CallFailed("image_call", q) /\ CallFailed("text_call", q)
    /\ PrintedNumbers # {}

\* C3: no failure of a generative call aborts the loop or the process: when
\* the run has ended, every index 1..num_pages was visited, every page whose
\* image is present was rendered, and the document was finalized.
C3_FailuresNeverAbort ==
    Terminated =>
        /\ pc = "done"
        /\ saved = 1
        /\ \A p \in 1..num_pages :
              /\ Count("image_call", p) = 1
              /\ Count("text_call", p) = 1
              /\ CallOk("image_call", p) => p \in PrintedNumbers

\* C4 as stated: when every page image call and every text call succeeds, the
\* PDF has exactly num_pages + 1 pages and the page files and the cover file
\* exist.
C4_AllSucceedAsStated ==
    (Terminated /\ AllPagesSucceed) =>
        /\ FinalPdfPages = num_pages + 1
        /\ \A p \in 1..num_pages : PageFile(theme, p) \in files
        /\ CoverFile(theme) \in files

\* C4 as amended: when every page image call and every text call succeeds, the
\* PDF has exactly num_pages + 1 pages and the page files exist; the cover
\* file exists exactly when the cover image call returned an image.
C4_AllSucceed ==
    (Terminated /\ AllPagesSucceed) =>
        /\ FinalPdfPages = num_pages + 1
        /\ \A p \in 1..num_pages : PageFile(theme, p) \in files
        /\ CoverFile(theme) \in files <=> CallOk("image_call", 0)

\* the scenario of the specification: "Animals", two pages, every call succeeds
C4_Witness ==
    /\ pc = "done"
    /\ theme = "Animals"
    /\ num_pages = 2
    /\ \A p \in 0..2 : CallOk("image_call", p)
    /\ \A p \in 1..2 : CallOk("text_call", p)
    /\ saved = 1
    /\ Len(pdf) = 3
    /\ files = {CoverFile("Animals"), PageFile("Animals", 1), PageFile("Animals", 2)}

\* C5: the footer of a page is its loop index: when the run has ended the set
\* of printed page numbers is the set of indices whose image call succeeded;
\* with three pages and only the image call of page 2 failing, the PDF has
\* three pages, numbered 1 and 3, no page-2 file, and a skip warning for 2.
C5_FooterIsLoopIndex ==
    Terminated =>
        /\ PrintedNumbers = {p \in 1..num_pages : CallOk("image_call", p)}
        /\ ( /\ num_pages = 3
             /\ CallOk("image_call", 0)
             /\ CallOk("image_call", 1) /\ CallFailed("image_call", 2)
             /\ CallOk("image_call", 3)
             /\ \A p \in 1..3 : CallOk("text_call", p) )
           => /\ FinalPdfPages = 3
              /\ PrintedNumbers = {1, 3}
              /\ PageFile(theme, 2) \notin files
              /\ \E i \in 1..Len(log) : log[i] = SkipWarning(2)

\* C6: the document is append-only and finalized exactly once: the cover is
\* sealed first, the content pages in strictly increasing index order,
\* nothing is drawn or sealed after the finalization, and every run
\* finalizes the document exactly once, after the last iteration.
C6_AppendOnlyFinalizedOnce ==
    /\ \A i \in 1..Len(events) : \A j \in 1..Len(events) :
          (i < j /\ events[i].ev = "seal" /\ events[j].ev = "seal")
              => events[i].idx < events[j].idx
    /\ \A i \in 1..Len(events) :
          (events[i].ev = "seal" /\ events[i].idx > 0)
              => \E j \in 1..(i - 1) : events[j] = Event("seal", 0, TRUE)
    /\ \A i \in 1..Len(events) :
          events[i].ev = "finalize" => (i = Len(events) /\ events[i].idx = num_pages)
    /\ saved > 0 => canvas_page = BlankPage
    /\ Terminated => (saved = 1 /\ CountAll("finalize") = 1)

\* C8: create_cover_page always seals exactly one cover page carrying the
\* wash; the cover image is drawn and the cover file written exactly when the
\* cover image call returned an image; after a failed cover image call the
\* content pages whose calls succeed are still generated.
C8_CoverAlwaysEmitted ==
    pc \notin {"start", "cover"} =>
        /\ Len(pdf) >= 1
        /\ pdf[1].kind = "cover"
        /\ pdf[1].wash
        /\ Cardinality({i \in 1..Len(pdf) : pdf[i].kind = "cover"}) = 1
        /\ IsSome(pdf[1].image) <=> CallOk("image_call", 0)
        /\ CoverFile(theme) \in files <=> CallOk("image_call", 0)
        /\ CallFailed("image_call", 0) =>
              \A p \in 1..num_pages :
                  (Passed(p) /\ CallOk("image_call", p) /\ CallOk("text_call", p))
                      => (p \in PrintedNumbers /\ PageFile(theme, p) \in files)

\* a finished run whose cover image call failed and that has two content pages
C8_Witness ==
    /\ pc = "done"
    /\ CallFailed("image_call", 0)
    /\ ~IsSome(pdf[1].image)
    /\ pdf[1].wash
    /\ Cardinality(PrintedNumbers) >= 2

\* C10: no retry, and the calls of a page are ordered: the image call of an
\* index comes before its text call, both before anything is written or drawn
\* for it, the text call is made even after a failed image call, and a run
\* makes exactly num_pages + 1 image calls and num_pages text calls.
C10_NoRetryOrderedCalls ==
    /\ \A p \in 0..num_pages :
          Count("image_call", p) <= 1 /\ Count("text_call", p) <= 1
    /\ \A i \in 1..Len(events) :
          events[i].ev = "text_call" =>
              \E j \in 1..(i - 1) :
                  events[j].ev = "image_call" /\ events[j].idx = events[i].idx
    /\ \A i \in 1..Len(events) :
          (events[i].ev \in {"write_png", "draw_image", "seal", "skip"} /\ events[i].idx > 0)
              => \E j \in 1..(i - 1) :
                    events[j].ev = "text_call" /\ events[j].idx = events[i].idx
    /\ \A p \in 1..num_pages :
          (CallFailed("image_call", p) /\ Passed(p)) => Count("text_call", p) = 1
    /\ Terminated =>
          /\ CountAll("image_call") = num_pages + 1
          /\ CountAll("text_call") = num_pages

----------------------------------------------------------------------------
(* Properties of generate_image, checked under SpecImage *)

\* C9: generate_image returns an image exactly when the call succeeds and the
\* response has a non-empty artifact list whose first artifact decodes, and
\* that image is the first artifact's; a missing or empty artifact list and
\* every error give the same none.
C9_ImageIffFirstArtifactDecodes ==
    unit_pc = "returned" =>
        LET r == img_response
            usable ==
                /\ ~r.raises
                /\ r.has_artifacts
                /\ Len(r.artifacts) >= 1
                /\ r.artifacts[1].has_base64
                /\ r.artifacts[1].decodable
        IN  /\ IsSome(img_result) <=> usable
            /\ usable => img_result = Some(r.artifacts[1].image)
            /\ ~usable => img_result = None

\* a response with two different decodable artifacts was turned into an image
C9_Witness ==
    /\ unit_pc = "returned"
    /\ ~img_response.raises
    /\ img_response.has_artifacts
    /\ Len(img_response.artifacts) = 2
    /\ img_response.artifacts[1].image # img_response.artifacts[2].image
    /\ img_response.artifacts[2].has_base64 /\ img_response.artifacts[2].decodable
    /\ IsSome(img_result)

----------------------------------------------------------------------------
(* Properties of generate_text, checked under SpecText *)

\* the phrases the cleanup is said to remove
ClaimedPhrases ==
    { <<"H", "e", "r", "e", "'", "s", " ", "a">>,
      <<"H", "e", "r", "e", " ", "i", "s", " ", "a">>,
      <<"S", "u", "r", "e", ",">>,
      <<"C", "e", "r", "t", "a", "i", "n", "l", "y", ",">> }

\* two characters are the same up to letter case
SameLetter(c, d) ==
    c = d \/ \E i \in 1..26 : {c, d} = {UpperCase[i], LowerCase[i]}

StartsWithPhrase(s, ph) ==
    /\ Len(s) >= Len(ph)
    /\ \A i \in 1..Len(ph) : SameLetter(s[i], ph[i])

\* r is s without its leading and trailing whitespace
IsTrimOf(r, s) ==
    \E a \in 0..Len(s) : \E b \in a..Len(s) :
        /\ r = SubSeq(s, a + 1, b)
        /\ \A i \in 1..a : s[i] \in Whitespace
        /\ \A i \in (b + 1)..Len(s) : s[i] \in Whitespace
        /\ r = <<>> \/ (r[1] \notin Whitespace /\ r[Len(r)] \notin Whitespace)

\* r is s without its leading whitespace
IsLeftTrimOf(r, s) ==
    \E a \in 0..Len(s) :
        /\ r = SubSeq(s, a + 1, Len(s))
        /\ \A i \in 1..a : s[i] \in Whitespace
        /\ r = <<>> \/ r[1] \notin Whitespace

HasColon(s) == \E i \in 1..Len(s) : s[i] = ":"

\* what the cleanup is said to return for the service's text raw
CleanedAsClaimed(raw, r) ==
    IF HasColon(raw)
    THEN \E i \in 1..Len(raw) :
            /\ raw[i] = ":"
            /\ \A j \in 1..(i - 1) : raw[j] # ":"
            /\ IsTrimOf(r, SubSeq(raw, i + 1, Len(raw)))
    ELSE \E a \in 0..Len(raw) : \E b \in a..Len(raw) :
            LET trimmed == SubSeq(raw, a + 1, b)
            IN  /\ IsTrimOf(trimmed, raw)
                /\ IF \E ph \in ClaimedPhrases : StartsWithPhrase(trimmed, ph)
                   THEN \E ph \in ClaimedPhrases :
                           /\ StartsWithPhrase(trimmed, ph)
                           /\ IsLeftTrimOf(r, SubSeq(trimmed, Len(ph) + 1, Len(trimmed)))
                   ELSE r = trimmed

\* C7: for a response text with a colon generate_text returns the trimmed
\* substring after the first colon, without applying the leading-phrase rule;
\* for a text without a colon it returns the trimmed text with one leading
\* "Here's a", "Here is a", "Sure," or "Certainly," (any letter case, with the
\* whitespace after it) removed, and the trimmed text when it starts with none.
C7_TextCleanup ==
    ( /\ unit_pc = "returned"
      /\ ~txt_response.raises
      /\ Len(txt_response.content) >= 1
      /\ IsSome(txt_response.content[1]) )
    => /\ IsSome(txt_result)
       /\ CleanedAsClaimed(Val(txt_response.content[1]), Val(txt_result))

\* "sURE," followed by whitespace and a word, without a colon: the phrase and
\* the whitespace are removed
C7_Witness ==
    /\ unit_pc = "returned"
    /\ ~txt_response.raises
    /\ txt_response.content = <<Some(<<"s", "U", "R", "E", ",", " ", "x">>)>>
    /\ txt_result = Some(<<"x">>)

====
